---- MODULE Spec2Model ----
(***************************************************************************)
(* Model of trafilatura/cli_utils.py: the backoff-aware URL scheduler      *)
(* (draw_backoff_url), the sequential and the concurrent fetch executors,  *)
(* the URL pipeline with its archive retry pass, the file batch pipeline   *)
(* with its worker pool and counter-based output shards, the safety gate   *)
(* (examine) with its deadline, the output path assigner and the blacklist *)
(* loader.                                                                 *)
(***************************************************************************)
EXTENDS Integers, Sequences, FiniteSets, TLC

(* ------------------------------ bounds --------------------------------- *)
\* domains of a queue handed directly to an executor
MaxDomains == 2
\* URLs of a queue handed directly to an executor
MaxUrls == 3
\* politeness interval, in clock ticks
MaxSleep == 2
\* clock ticks that elapse on their own (the pauses of the valve add to them)
MaxTime == 2
\* worker threads of the concurrent executor
MaxThreads == 2
\* files found by the walk of the input directory
MaxFiles == 7
\* worker processes of the file pool
MaxCores == 2
\* settings.MAX_FILES_PER_DIRECTORY, scaled down
MAX_FILES_PER_DIRECTORY == 2
\* lines of the blacklist file
MaxLines == 2

(* --------------------------- program constants ------------------------- *)
\* Python's None, for the nullable counters
None == -1
\* 'archive.org', the synthetic domain of the retry pass
ArchiveDomain == 0
\* url_processing_pipeline: at most this many domains run single-threaded
MaxSingleDomains == 5

VARIABLES
    entry,            \* the function called: "single", "multi", "url", "file",
                      \* "examine", "blacklist"
    pc,               \* position of the orchestrating thread
    sleeptime,        \* politeness interval
    download_threads, \* args.parallel or DOWNLOAD_THREADS
    archived,         \* args.archived
    input_urls,       \* url_processing_pipeline's list
    domain_dict,      \* URLQueue: domain -> sequence of URLs
    backoff_dict,     \* BackoffRegistry: domain -> time of last draw
    now,              \* datetime.now()
    i,                \* StallCounter
    counter,          \* Counter of the URL executors
    s_errors,         \* single_threaded_processing's errors
    m_errors,         \* multi_threaded_processing's errors
    errors,           \* the errors returned to the caller / the pipeline
    archived_errors,  \* errors of the retry pass
    s_ret,            \* caller of single_threaded_processing
    m_ret,            \* caller of multi_threaded_processing
    url,              \* URL drawn by the sequential loop, to be fetched
    bufferlist,       \* batch being filled by the concurrent executor
    futures,          \* submitted fetches: URL -> "running" | "done" | "handled"
    batches,          \* number of batches submitted so far
    outcome,          \* what the stub fetcher answered: URL -> BOOLEAN
    fetches,          \* history: URL -> number of fetch_url calls
    queue0,           \* history: the URLs of the initial queue
    prev_draw,        \* history: domain -> time its last URL was returned
    last_draw,        \* history: what the last draw_backoff_url call did
    args_list,        \* args.list
    blacklist,        \* args.blacklist
    nfiles,           \* files under args.inputdir
    walked,           \* files generate_filelist has yielded so far
    filebatch,        \* file_processing_pipeline's batch
    filecounter,      \* file_processing_pipeline's counter
    processing_cores, \* args.parallel or FILE_PROCESSING_CORES
    pool,             \* tasks of the running pool.map: file -> state, counter
    rounds,           \* history: size and counter of every pool.map call
    written,          \* output path -> times it was opened for writing (2: more than once)
    rng,              \* worker process -> names its generator has produced
    args_timeout,     \* args.timeout
    args_backup,      \* args.backup_dir is set
    htmlstring,       \* the document handed to examine when called on its own
    input0,           \* history: the list handed to url_processing_pipeline
    checked_urls,     \* history: what url_processing_checks returned
    last_doc,         \* history: what was done with the last document
    inputfh,          \* load_blacklist: the lines of the file
    lineno,           \* load_blacklist: lines read so far
    bl_set            \* load_blacklist: the set being built

filevars == <<nfiles, walked, filebatch, filecounter, processing_cores, pool,
              rounds, written, rng>>

\* options and inputs no step changes
urlopts == <<args_timeout, args_backup, htmlstring, input0>>

histvars == <<checked_urls, last_doc>>

loadvars == <<inputfh, lineno, bl_set>>

urlvars == <<urlopts, histvars, loadvars, args_list, blacklist, entry, pc, sleeptime, download_threads, archived, input_urls,
             domain_dict, backoff_dict, now, i, counter, s_errors, m_errors,
             errors, archived_errors, s_ret, m_ret, url, bufferlist, futures,
             batches, outcome, fetches, queue0, prev_draw, last_draw>>

\* the state of the URL pipeline and its executors, pc apart
corevars_but_pc == <<args_list, blacklist, entry, sleeptime, download_threads, archived,
                     input_urls, domain_dict, backoff_dict, now, i, counter, s_errors,
                     m_errors, errors, archived_errors, s_ret, m_ret, url, bufferlist,
                     futures, batches, outcome, fetches, queue0, prev_draw, last_draw>>

urlvars_but_pc == <<urlopts, histvars, loadvars, corevars_but_pc>>

vars == <<urlvars, filevars>>

(* ------------------------------ helpers -------------------------------- *)
EmptyMap == [x \in {} |-> 0]

Remove(f, k) == [x \in DOMAIN f \ {k} |-> f[x]]

Put(f, k, v) == [x \in DOMAIN f \cup {k} |-> IF x = k THEN v ELSE f[x]]

Range(s) == {s[k] : k \in DOMAIN s}

Front(s) == SubSeq(s, 1, Len(s) - 1)

Last(s) == s[Len(s)]

\* a URL: its domain, its number within the domain, rewritten for the archive or not
Url(d, n) == [dom |-> d, n |-> n, arch |-> FALSE]

\* courlan.extract_domain
extract_domain(u) == IF u.arch THEN ArchiveDomain ELSE u.dom

\* 'https://web.archive.org/web/20/' + e
ArchiveUrl(e) == [e EXCEPT !.arch = TRUE]

\* all URLs of a queue
QueueUrls(dd) == UNION {Range(dd[d]) : d \in DOMAIN dd}

\* no draw yet
NoDraw == [domain |-> None, collided |-> FALSE, paused |-> FALSE, gap |-> None,
           i_before |-> 0, i_after |-> 0, ndomains |-> 0, time |-> 0]

(* --------------------------- draw_backoff_url -------------------------- *)
\* the safeguard's test: the domain was drawn less than sleeptime ago
InWindow(domain, bd, st, t) == domain \in DOMAIN bd /\ t - bd[domain] < st

\* faulty variant: the valve fires only on the exact bound
ValveFires_Exact(ii, dd) == ii = Cardinality(DOMAIN dd) * 3

\* the stall valve's test on the incremented counter
ValveFires(ii, dd) == ii >= Cardinality(DOMAIN dd) * 3

\* faulty variant: the draw is not registered
CleanRegistries_NoRegister(domain, dd, bd, t) ==
    IF dd[domain] = <<>>
    THEN [domain_dict |-> Remove(dd, domain), backoff_dict |-> Remove(bd, domain)]
    ELSE [domain_dict |-> dd, backoff_dict |-> bd]

\* faulty variant: the registry keeps the entry of an emptied domain
CleanRegistries_KeepBackoff(domain, dd, bd, t) ==
    IF dd[domain] = <<>>
    THEN [domain_dict |-> Remove(dd, domain), backoff_dict |-> bd]
    ELSE [domain_dict |-> dd, backoff_dict |-> Put(bd, domain, t)]

\* clean registries / register backoff, given the queue after the pop
CleanRegistries(domain, dd, bd, t) ==
    IF dd[domain] = <<>>
    THEN [domain_dict |-> Remove(dd, domain), backoff_dict |-> Remove(bd, domain)]
    ELSE [domain_dict |-> dd, backoff_dict |-> Put(bd, domain, t)]

\* the call, for the domain random.choice picked; requires dd[domain] # <<>>
draw_backoff_url(domain, dd, bd, st, ii, t) ==
    LET collided == InWindow(domain, bd, st, t)
        i1 == IF collided THEN ii + 1 ELSE ii
        paused == collided /\ ValveFires(i1, dd)
        i2 == IF paused THEN 0 ELSE i1
        t1 == IF paused THEN t + st ELSE t
        popped == [dd EXCEPT ![domain] = Front(dd[domain])]
        reg == CleanRegistries(domain, popped, bd, t1)
    IN  [url |-> Last(dd[domain]), domain_dict |-> reg.domain_dict,
         backoff_dict |-> reg.backoff_dict, i |-> i2, now |-> t1,
         collided |-> collided, paused |-> paused]

\* history of a draw: the gap to the previous return for the same domain
DrawRecord(domain, r, dd, ii, pd) ==
    [domain |-> domain, collided |-> r.collided, paused |-> r.paused,
     gap |-> IF domain \in DOMAIN pd THEN r.now - pd[domain] ELSE None,
     i_before |-> ii, i_after |-> r.i, ndomains |-> Cardinality(DOMAIN dd),
     time |-> r.now]

\* history: when the domain's queue goes on, the time its URL was returned
DrawHistory(pd, domain, r) ==
    IF domain \in DOMAIN r.domain_dict THEN Put(pd, domain, r.now) ELSE Remove(pd, domain)

(* -------------------------------- examine ------------------------------ *)
\* a document, by its size: None, above MAX_FILE_SIZE, below MIN_FILE_SIZE, between
DocKinds == {"null", "large", "small", "ok"}

\* what extract does with a document: it returns text, returns None, or raises
ExtractBehaviours == {"text", "none", "raise"}

\* where SIGALRM is delivered, if it is: between signal.alarm(PROCESSING_TIMEOUT)
\* and the try statement, inside extract, or between the try statement and
\* signal.alarm(0)
AlarmMoments == {"never", "armed", "extract", "handled"}

\* the deadline exists only with args.timeout
Deadline(timeout) == IF timeout THEN AlarmMoments ELSE {"never"}

\* faulty variant: the minimum size is not tested
Rejects_NoMinimum(doc) == doc \in {"null", "large"}

\* the safety check
Rejects(doc) == doc \in {"null", "large", "small"}

\* handler raises outside the try statement
Escapes(timeout, alarm) == timeout /\ alarm \in {"armed", "handled"}

\* examine(htmlstring, args): result is TRUE for text, FALSE for None;
\* extracted tells whether extract was called, raised whether an exception
\* left examine
examine(doc, timeout, ext, alarm) ==
    IF Rejects(doc)
    THEN [result |-> FALSE, extracted |-> FALSE, raised |-> FALSE]
    ELSE IF Escapes(timeout, alarm)
    THEN \* extract was called unless the signal came before the try statement
         [result |-> FALSE, extracted |-> alarm = "handled", raised |-> TRUE]
    ELSE IF timeout /\ alarm = "extract"
    THEN \* except Exception: the handler's exception is caught like extract's own
         [result |-> FALSE, extracted |-> TRUE, raised |-> FALSE]
    ELSE [result |-> ext = "text", extracted |-> TRUE, raised |-> FALSE]

\* the shard directory of a counter; 0 stands for the directory itself ('')
determine_counter_dir(c) ==
    IF c # None THEN (c \div MAX_FILES_PER_DIRECTORY) + 1 ELSE 0

\* no document yet
NoDoc == [kind |-> "none", counter |-> None, extracted |-> FALSE, result |-> FALSE,
          raised |-> FALSE, out_dir |-> None, backup_dir |-> None]

\* examine(htmlstring, args) called on its own
Examine ==
    /\ pc = "x_call"
    /\ \E ext \in ExtractBehaviours, alarm \in Deadline(args_timeout) :
         LET ex == examine(htmlstring, args_timeout, ext, alarm)
         IN  /\ last_doc' = [NoDoc EXCEPT !.kind = htmlstring, !.extracted = ex.extracted,
                                          !.result = ex.result, !.raised = ex.raised]
             /\ pc' = IF ex.raised THEN "aborted" ELSE "done"
    /\ UNCHANGED <<filevars, urlopts, checked_urls, loadvars, corevars_but_pc>>

(* ----------------------------- process_result -------------------------- *)
\* archive_html(htmlstring, args, counter) if args.backup_dir; examine;
\* write_result(result, args, counter=None, new_filename=fileslug); counter += 1
process_result(doc, backup, timeout, c, ext, alarm) ==
    LET ex == examine(doc, timeout, ext, alarm)
    IN  [counter |-> IF ex.raised THEN c ELSE IF c # None THEN c + 1 ELSE c,
         raised |-> ex.raised,
         doc |-> [kind |-> doc, counter |-> c, extracted |-> ex.extracted,
                  result |-> ex.result, raised |-> ex.raised,
                  out_dir |-> IF ex.result THEN determine_counter_dir(None) ELSE None,
                  backup_dir |-> IF backup THEN determine_counter_dir(c) ELSE None]]

\* what fetch_url downloads: the first URL of a domain has a document of
\* accepted size, its second a too small one, its third a too large one
Document(u) == CASE u.n = 2 -> "small" [] u.n = 3 -> "large" [] OTHER -> "ok"

\* what extract does with that document: the pages of the second domain hold
\* no text, those of the third make it raise
Extraction(u) == CASE u.dom = 2 -> "none" [] u.dom = 3 -> "raise" [] OTHER -> "text"

\* process_result(htmlstring, args, url, counter) in an executor's loop
ProcessResult(u, back, raise) ==
    \E alarm \in Deadline(args_timeout) :
        LET r == process_result(Document(u), args_backup, args_timeout, counter,
                                Extraction(u), alarm)
        IN  /\ counter' = r.counter
            /\ last_doc' = r.doc
            /\ pc' = IF r.raised THEN raise ELSE back

\* fetch_url through a deterministic stub: a URL asked twice answers the same
\* the stub fails only URLs of the first MaxDomains domains
MayFail(u) == u.dom <= MaxDomains

StubAnswers(u) ==
    IF u \in DOMAIN outcome THEN {outcome[u]}
    ELSE IF MayFail(u) THEN BOOLEAN ELSE {TRUE}

Fetched(u, ok) ==
    /\ outcome' = Put(outcome, u, ok)
    /\ fetches' = Put(fetches, u, IF u \in DOMAIN fetches THEN fetches[u] + 1 ELSE 1)

(* ---------------------- single_threaded_processing --------------------- *)
\* the call: i = 3, errors = []
CallSingle(dd, bd, ret) ==
    /\ domain_dict' = dd
    /\ backoff_dict' = bd
    /\ i' = 3
    /\ s_errors' = <<>>
    /\ s_ret' = ret
    /\ pc' = "s_loop"

\* while domain_dict: draw_backoff_url(...)
SingleDraw ==
    /\ pc = "s_loop"
    /\ DOMAIN domain_dict # {}
    /\ \E domain \in DOMAIN domain_dict :
         IF domain_dict[domain] = <<>>
         THEN \* pop from an empty list
              /\ pc' = "fault"
              /\ UNCHANGED <<domain_dict, backoff_dict, now, i, url, prev_draw, last_draw>>
         ELSE LET r == draw_backoff_url(domain, domain_dict, backoff_dict, sleeptime, i, now)
              IN  /\ url' = r.url
                  /\ domain_dict' = r.domain_dict
                  /\ backoff_dict' = r.backoff_dict
                  /\ i' = r.i
                  /\ now' = r.now
                  /\ last_draw' = DrawRecord(domain, r, domain_dict, i, prev_draw)
                  /\ prev_draw' = DrawHistory(prev_draw, domain, r)
                  /\ pc' = "s_fetch"
    /\ UNCHANGED <<filevars, urlopts, histvars, loadvars, args_list, blacklist, entry, sleeptime, download_threads, archived, input_urls, counter,
                   s_errors, m_errors, errors, archived_errors, s_ret, m_ret,
                   bufferlist, futures, batches, outcome, fetches, queue0>>

\* htmlstring = fetch_url(url); process_result or errors.append
SingleFetch ==
    /\ pc = "s_fetch"
    /\ \E ok \in StubAnswers(url) :
         /\ Fetched(url, ok)
         /\ IF ok
            THEN ProcessResult(url, "s_loop", "aborted") /\ UNCHANGED s_errors
            ELSE /\ s_errors' = Append(s_errors, url)
                 /\ pc' = "s_loop"
                 /\ UNCHANGED <<counter, last_doc>>
    /\ UNCHANGED <<filevars, urlopts, checked_urls, loadvars, args_list, blacklist, entry, sleeptime, download_threads, archived, input_urls,
                   domain_dict, backoff_dict, now, i, m_errors, errors, archived_errors,
                   s_ret, m_ret, url, bufferlist, futures, batches, queue0,
                   prev_draw, last_draw>>

\* what multi_threaded_processing returns after the delegation
DelegatedErrors(own, delegated) == delegated

\* return errors, counter: to the caller
SingleReturn ==
    /\ pc = "s_loop"
    /\ DOMAIN domain_dict = {}
    /\ CASE s_ret = "top" ->
              /\ errors' = s_errors
              /\ pc' = "done"
              /\ UNCHANGED <<m_errors, archived_errors>>
         [] s_ret = "multi" ->
              \* errors, counter = single_threaded_processing(...); return errors, counter
              /\ m_errors' = DelegatedErrors(m_errors, s_errors)
              /\ errors' = m_errors'
              /\ pc' = IF m_ret = "top" THEN "done" ELSE "u_retry"
              /\ UNCHANGED archived_errors
         [] s_ret = "primary" ->
              /\ errors' = s_errors
              /\ pc' = "u_retry"
              /\ UNCHANGED <<m_errors, archived_errors>>
         [] s_ret = "archive" ->
              /\ archived_errors' = s_errors
              /\ pc' = "done"
              /\ UNCHANGED <<m_errors, errors>>
    /\ UNCHANGED <<filevars, urlopts, histvars, loadvars, args_list, blacklist, entry, sleeptime, download_threads, archived, input_urls,
                   domain_dict, backoff_dict, now, i, counter, s_errors, s_ret, m_ret,
                   url, bufferlist, futures, batches, outcome, fetches, queue0,
                   prev_draw, last_draw>>

(* ---------------------- multi_threaded_processing ---------------------- *)
\* the call: i, backoff_dict, errors = 0, dict(), []
CallMulti(dd, ret) ==
    /\ domain_dict' = dd
    /\ backoff_dict' = EmptyMap
    /\ i' = 0
    /\ m_errors' = <<>>
    /\ m_ret' = ret
    /\ pc' = "m_loop"

\* faulty variant: domains are counted, not URLs
TooSmall_Domains(dd, n) == Cardinality(DOMAIN dd) < n

\* "the remaining list is too small": fewer URLs left than threads
TooSmall(dd, n) == Cardinality(QueueUrls(dd)) < n

\* while domain_dict fails: return errors, counter
MultiReturn ==
    /\ pc = "m_loop"
    /\ DOMAIN domain_dict = {}
    /\ errors' = m_errors
    /\ pc' = IF m_ret = "top" THEN "done" ELSE "u_retry"
    /\ UNCHANGED <<filevars, urlopts, histvars, loadvars, args_list, blacklist, entry, sleeptime, download_threads, archived, input_urls,
                   domain_dict, backoff_dict, now, i, counter, s_errors, m_errors,
                   archived_errors, s_ret, m_ret, url, bufferlist, futures, batches,
                   outcome, fetches, queue0, prev_draw, last_draw>>

\* the remainder goes to single_threaded_processing
MultiDelegate ==
    /\ pc = "m_loop"
    /\ DOMAIN domain_dict # {}
    /\ TooSmall(domain_dict, download_threads)
    /\ CallSingle(domain_dict, backoff_dict, "multi")
    /\ UNCHANGED <<filevars, urlopts, histvars, loadvars, args_list, blacklist, entry, sleeptime, download_threads, archived, input_urls, now,
                   counter, m_errors, errors, archived_errors, m_ret, url, bufferlist,
                   futures, batches, outcome, fetches, queue0, prev_draw, last_draw>>

\* bufferlist = []
MultiBeginBatch ==
    /\ pc = "m_loop"
    /\ DOMAIN domain_dict # {}
    /\ ~TooSmall(domain_dict, download_threads)
    /\ bufferlist' = <<>>
    /\ pc' = "m_fill"
    /\ UNCHANGED <<filevars, urlopts, histvars, loadvars, args_list, blacklist, entry, sleeptime, download_threads, archived, input_urls,
                   domain_dict, backoff_dict, now, i, counter, s_errors, m_errors,
                   errors, archived_errors, s_ret, m_ret, url, futures, batches,
                   outcome, fetches, queue0, prev_draw, last_draw>>

\* faulty variant: one draw too many
BatchFull_OneMore(buf, n) == Len(buf) > n

\* the batch is full
BatchFull(buf, n) == Len(buf) >= n

\* while len(bufferlist) < download_threads: draw_backoff_url, append
MultiDraw ==
    /\ pc = "m_fill"
    /\ ~BatchFull(bufferlist, download_threads)
    /\ IF DOMAIN domain_dict = {}
       THEN \* random.choice of an empty list
            /\ pc' = "fault"
            /\ UNCHANGED <<domain_dict, backoff_dict, now, i, bufferlist, prev_draw,
                           last_draw>>
       ELSE \E domain \in DOMAIN domain_dict :
              LET r == draw_backoff_url(domain, domain_dict, backoff_dict, sleeptime, i, now)
              IN  /\ bufferlist' = Append(bufferlist, r.url)
                  /\ domain_dict' = r.domain_dict
                  /\ backoff_dict' = r.backoff_dict
                  /\ i' = r.i
                  /\ now' = r.now
                  /\ last_draw' = DrawRecord(domain, r, domain_dict, i, prev_draw)
                  /\ prev_draw' = DrawHistory(prev_draw, domain, r)
                  /\ pc' = "m_fill"
    /\ UNCHANGED <<filevars, urlopts, histvars, loadvars, args_list, blacklist, entry, sleeptime, download_threads, archived, input_urls, counter,
                   s_errors, m_errors, errors, archived_errors, s_ret, m_ret, url,
                   futures, batches, outcome, fetches, queue0>>

\* with ThreadPoolExecutor(...): executor.submit(fetch_url, url) for url in bufferlist
MultiSubmit ==
    /\ pc = "m_fill"
    /\ BatchFull(bufferlist, download_threads)
    /\ futures' = [u \in Range(bufferlist) |-> "running"]
    /\ batches' = batches + 1
    /\ pc' = "m_wait"
    /\ UNCHANGED <<filevars, urlopts, histvars, loadvars, args_list, blacklist, entry, sleeptime, download_threads, archived, input_urls,
                   domain_dict, backoff_dict, now, i, counter, s_errors, m_errors,
                   errors, archived_errors, s_ret, m_ret, url, bufferlist, outcome,
                   fetches, queue0, prev_draw, last_draw>>

\* a worker thread's fetch_url(url) returns
FetchDone(u) ==
    /\ u \in DOMAIN futures
    /\ futures[u] = "running"
    /\ \E ok \in StubAnswers(u) : Fetched(u, ok)
    /\ futures' = [futures EXCEPT ![u] = "done"]
    /\ UNCHANGED <<filevars, urlopts, histvars, loadvars, args_list, blacklist, entry, pc, sleeptime, download_threads, archived, input_urls,
                   domain_dict, backoff_dict, now, i, counter, s_errors, m_errors,
                   errors, archived_errors, s_ret, m_ret, url, bufferlist, batches,
                   queue0, prev_draw, last_draw>>

\* for future in as_completed(future_to_url): process_result or errors.append
MultiHandle(u) ==
    /\ pc = "m_wait"
    /\ ~last_doc.raised
    /\ u \in DOMAIN futures
    /\ futures[u] = "done"
    /\ IF outcome[u]
       THEN \* an exception of process_result is held back by the with block
            ProcessResult(u, "m_wait", "m_wait") /\ UNCHANGED m_errors
       ELSE /\ m_errors' = Append(m_errors, u)
            /\ UNCHANGED <<counter, last_doc, pc>>
    /\ futures' = [futures EXCEPT ![u] = "handled"]
    /\ UNCHANGED <<filevars, urlopts, checked_urls, loadvars, args_list, blacklist, entry, sleeptime, download_threads, archived, input_urls,
                   domain_dict, backoff_dict, now, i, s_errors, errors, archived_errors,
                   s_ret, m_ret, url, bufferlist, batches, outcome, fetches, queue0,
                   prev_draw, last_draw>>

\* faulty variant: the with block is left at once
Unfinished_None(fs) == {}

\* faulty variant: futures still running are not waited for
Unfinished_OnlyDone(fs) == {u \in DOMAIN fs : fs[u] = "done"}

\* the futures the executor still has to wait for
Unfinished(fs) == {u \in DOMAIN fs : fs[u] # "handled"}

\* the with block is left once every future is done and handled
MultiBatchEnd ==
    /\ pc = "m_wait"
    /\ ~last_doc.raised
    /\ Unfinished(futures) = {}
    /\ pc' = "m_loop"
    /\ UNCHANGED <<filevars, urlopts, histvars, loadvars, args_list, blacklist, entry, sleeptime, download_threads, archived, input_urls,
                   domain_dict, backoff_dict, now, i, counter, s_errors, m_errors,
                   errors, archived_errors, s_ret, m_ret, url, bufferlist, futures, batches,
                   outcome, fetches, queue0, prev_draw, last_draw>>

\* an exception of process_result leaves the with block, which first waits for
\* the fetches still running
MultiAbort ==
    /\ pc = "m_wait"
    /\ last_doc.raised
    /\ \A u \in DOMAIN futures : futures[u] # "running"
    /\ pc' = "aborted"
    /\ UNCHANGED <<filevars, urlopts, histvars, loadvars, args_list, blacklist, entry, sleeptime, download_threads, archived, input_urls,
                   domain_dict, backoff_dict, now, i, counter, s_errors, m_errors,
                   errors, archived_errors, s_ret, m_ret, url, bufferlist, futures, batches,
                   outcome, fetches, queue0, prev_draw, last_draw>>

(* ------------------------ url_processing_pipeline ---------------------- *)
\* courlan.validate_url: the URL numbered 0 of a domain is the malformed one
validate_url(u) == u.n > 0

\* faulty variant: a repeated URL is kept where it occurs last
RECURSIVE Dedup_LastOccurrence(_, _)
Dedup_LastOccurrence(urls, seen) ==
    IF urls = <<>> THEN <<>>
    ELSE IF Head(urls) \in Range(Tail(urls)) THEN Dedup_LastOccurrence(Tail(urls), seen)
    ELSE <<Head(urls)>> \o Dedup_LastOccurrence(Tail(urls), seen)

\* list(OrderedDict.fromkeys(urls)): first occurrences, in order
RECURSIVE Dedup(_, _)
Dedup(urls, seen) ==
    IF urls = <<>> THEN <<>>
    ELSE IF Head(urls) \in seen THEN Dedup(Tail(urls), seen)
    ELSE <<Head(urls)>> \o Dedup(Tail(urls), seen \cup {Head(urls)})

url_processing_checks(bl, urls) ==
    LET notblack == IF bl # {} THEN SelectSeq(urls, LAMBDA u : u \notin bl) ELSE urls
        valid == IF notblack # <<>> THEN SelectSeq(notblack, validate_url) ELSE notblack
    IN  IF valid # <<>> THEN Dedup(valid, {}) ELSE <<>>

\* faulty variant: the list is consumed from its front
RECURSIVE Partition_FromFront(_, _)
Partition_FromFront(urls, dd) ==
    IF urls = <<>> THEN dd
    ELSE LET u == Head(urls)
             domain_name == extract_domain(u)
         IN  Partition_FromFront(Tail(urls),
                                 IF domain_name \in DOMAIN dd
                                 THEN [dd EXCEPT ![domain_name] = Append(@, u)]
                                 ELSE Put(dd, domain_name, <<u>>))

\* while input_urls: url = input_urls.pop(); domain_dict[domain].append(url)
RECURSIVE Partition(_, _)
Partition(urls, dd) ==
    IF urls = <<>> THEN dd
    ELSE LET u == Last(urls)
             domain_name == extract_domain(u)
         IN  Partition(Front(urls),
                       IF domain_name \in DOMAIN dd
                       THEN [dd EXCEPT ![domain_name] = Append(@, u)]
                       ELSE Put(dd, domain_name, <<u>>))

\* initialize file counter if necessary, from what is left of input_urls
InitCounter(left) == IF Len(left) > MAX_FILES_PER_DIRECTORY THEN 0 ELSE None

\* the executor for the primary pass
UseSingle(dd) == Cardinality(DOMAIN dd) <= MaxSingleDomains

\* url_processing_pipeline up to the call of the primary pass
UrlStart ==
    /\ pc = "u_start"
    /\ LET checked == url_processing_checks(blacklist, input_urls)
       IN  IF args_list
           THEN \* the list is printed and nothing is fetched
                /\ input_urls' = checked
                /\ checked_urls' = checked
                /\ pc' = "done"
                /\ UNCHANGED <<domain_dict, backoff_dict, i, counter, s_errors, m_errors,
                               s_ret, m_ret, queue0>>
           ELSE LET dd == Partition(checked, EmptyMap)
                IN  /\ input_urls' = <<>>
                    /\ checked_urls' = checked
                    /\ queue0' = Range(checked)
                    /\ counter' = InitCounter(input_urls')
                    /\ IF UseSingle(dd)
                       THEN CallSingle(dd, EmptyMap, "primary") /\ UNCHANGED <<m_errors, m_ret>>
                       ELSE CallMulti(dd, "primary") /\ UNCHANGED <<s_errors, s_ret>>
    /\ UNCHANGED <<filevars, urlopts, last_doc, loadvars, args_list, blacklist, entry, sleeptime, download_threads,
                   archived, now, errors, archived_errors, url, bufferlist, futures,
                   batches, outcome, fetches, prev_draw, last_draw>>

\* faulty variant: the failed URLs are queued again as they are
ArchiveQueue_Unrewritten(errs) == Put(EmptyMap, ArchiveDomain, errs)

\* the bucket of the retry pass
ArchiveQueue(errs) ==
    Put(EmptyMap, ArchiveDomain, [k \in 1..Len(errs) |-> ArchiveUrl(errs[k])])

\* option to retry
UrlRetry ==
    /\ pc = "u_retry"
    /\ IF archived
       THEN CallSingle(ArchiveQueue(errors), EmptyMap, "archive")
       ELSE /\ pc' = "done"
            /\ UNCHANGED <<domain_dict, backoff_dict, i, s_errors, s_ret>>
    /\ UNCHANGED <<filevars, urlopts, histvars, loadvars, args_list, blacklist, entry, sleeptime, download_threads,
                   archived, input_urls, now, counter, m_errors, errors, archived_errors,
                   m_ret, url, bufferlist, futures, batches, outcome, fetches, queue0,
                   prev_draw, last_draw>>

\* time passes; it is only ever read against the registry's timestamps
Tick ==
    /\ pc \notin {"done", "fault", "aborted"}
    /\ DOMAIN backoff_dict # {}
    /\ now < MaxTime
    /\ now' = now + 1
    /\ UNCHANGED <<filevars, urlopts, histvars, loadvars, args_list, blacklist, entry, pc, sleeptime, download_threads,
                   archived, input_urls, domain_dict, backoff_dict, i, counter, s_errors,
                   m_errors, errors, archived_errors, s_ret, m_ret, url, bufferlist,
                   futures, batches, outcome, fetches, queue0, prev_draw, last_draw>>

(* ----------------------------- load_blacklist -------------------------- *)
\* a string is the sequence of its characters: 'http' and 'https', 'http:' and 'https:'
Http == <<"h", "t", "t", "p">>

Https == <<"h", "t", "t", "p", "s">>

HttpColon == Http \o <<":">>

HttpsColon == Https \o <<":">>

\* str.startswith(prefix)
StartsWith(str, prefix) ==
    Len(str) >= Len(prefix) /\ SubSeq(str, 1, Len(prefix)) = prefix

\* re.sub('^' + prefix, repl, str)
SubPrefix(prefix, repl, str) ==
    IF StartsWith(str, prefix)
    THEN repl \o SubSeq(str, Len(prefix) + 1, Len(str))
    ELSE str

Whitespace == {" ", "\n"}

RECURSIVE LStrip(_)
LStrip(str) == IF str # <<>> /\ Head(str) \in Whitespace THEN LStrip(Tail(str)) ELSE str

RECURSIVE RStrip(_)
RStrip(str) == IF str # <<>> /\ Last(str) \in Whitespace THEN RStrip(Front(str)) ELSE str

\* str.strip()
strip(str) == RStrip(LStrip(str))

\* faulty variant: the test is on 'http'
IsSecure_AnyHttp(str) == StartsWith(str, Http)

\* url.startswith('https')
IsSecure(str) == StartsWith(str, Https)

\* the other form of the URL, as the two re.sub calls give it
OtherScheme(str) ==
    IF IsSecure(str)
    THEN SubPrefix(HttpsColon, HttpColon, str)
    ELSE SubPrefix(HttpColon, HttpsColon, str)

\* for line in inputfh: blacklist.add(url); blacklist.add(the other form)
LoadLine ==
    /\ pc = "b_loop"
    /\ lineno < Len(inputfh)
    /\ LET str == strip(inputfh[lineno + 1])
       IN  bl_set' = bl_set \cup {str, OtherScheme(str)}
    /\ lineno' = lineno + 1
    /\ UNCHANGED <<filevars, urlopts, histvars, inputfh, corevars_but_pc, pc>>

\* return blacklist
LoadReturn ==
    /\ pc = "b_loop"
    /\ lineno = Len(inputfh)
    /\ pc' = "done"
    /\ UNCHANGED <<filevars, urlopts, histvars, loadvars, corevars_but_pc>>

(* ------------------------ file_processing_pipeline --------------------- *)
\* the batch is dispatched from inside the walk
BatchOverflows(batch) == Len(batch) > MAX_FILES_PER_DIRECTORY

\* no path yet
NoPath == [dir |-> None, name |-> 0]

\* pool.map(partial(file_processing, args=args, counter=c), batch): the tasks
PoolMap(batch, c, round) ==
    [f \in Range(batch) |-> [st |-> "queued", counter |-> c, round |-> round,
                             worker |-> 0, extracted |-> FALSE, path |-> NoPath]]

\* with Pool(processes=processing_cores): the workers are forked from the parent,
\* every one with the parent's generator state (random.seed(345), nothing drawn)
Fork(cores) == [w \in 1..cores |-> 0]

\* tasks pool.map still waits for
PoolBusy(p) == {f \in DOMAIN p : p[f].st \notin {"done", "raised"}}

PoolRunning(p) == {f \in DOMAIN p : p[f].st \in {"running", "writing"}}

\* tasks that ended with an exception
PoolRaised(p) == {f \in DOMAIN p : p[f].st = "raised"}

\* worker processes without a task
FreeWorkers(p, cores) == {w \in 1..cores : \A f \in PoolRunning(p) : p[f].worker # w}

\* what inputf.read() returns: every fourth file is too large, the one before
\* it too small, the others are of accepted size
FileDocument(f) == CASE f % 4 = 3 -> "small" [] f % 4 = 0 -> "large" [] OTHER -> "ok"

\* open(path, mode='w'): the file is created, or truncated and written again
Opened(w, output_path) ==
    Put(w, output_path, IF output_path \in DOMAIN w THEN 2 ELSE 1)

\* get_writable_path(destdir, extension) in a process whose generator has
\* produced r names: the k-th name of the seeded generator is k
RECURSIVE get_writable_path(_, _, _)
get_writable_path(destdir, r, existing) ==
    LET output_path == [dir |-> destdir, name |-> r + 1]
    IN  IF output_path \in existing
        THEN get_writable_path(destdir, r + 1, existing)
        ELSE [path |-> output_path, rng |-> r + 1]

\* for filename in generate_filelist(...): append, and dispatch on overflow
FileAppend ==
    /\ pc = "f_walk"
    /\ walked < nfiles
    /\ walked' = walked + 1
    /\ LET batch == Append(filebatch, walked + 1)
       IN  /\ filebatch' = batch
           /\ IF BatchOverflows(batch)
              THEN /\ filecounter' = IF filecounter = None THEN 0 ELSE filecounter
                   /\ pool' = PoolMap(batch, filecounter', Len(rounds) + 1)
                   /\ rng' = Fork(processing_cores)
                   /\ rounds' = Append(rounds, [size |-> Len(batch), counter |-> filecounter'])
                   /\ pc' = "f_map"
              ELSE UNCHANGED <<filecounter, pool, rng, rounds, pc>>
    /\ UNCHANGED <<urlvars_but_pc, nfiles, processing_cores, written>>

\* a free worker process takes a task
WorkerStart(f) ==
    /\ f \in DOMAIN pool
    /\ pool[f].st = "queued"
    /\ \E w \in FreeWorkers(pool, processing_cores) :
         pool' = [pool EXCEPT ![f].st = "running", ![f].worker = w]
    /\ UNCHANGED <<urlvars, nfiles, walked, filebatch, filecounter, processing_cores,
                   rounds, written, rng>>

\* file_processing(filename, args, counter) up to the open of write_result:
\* inputf.read(), examine, and for a result get_writable_path.
\* The loop of get_writable_path is one step: files only appear, so the names
\* it skipped exist at its last test as well.
WorkerExamine(f) ==
    /\ f \in DOMAIN pool
    /\ pool[f].st = "running"
    /\ \E ext \in ExtractBehaviours, alarm \in Deadline(args_timeout) :
         LET ex == examine(FileDocument(f), args_timeout, ext, alarm)
             w == pool[f].worker
             g == get_writable_path(determine_counter_dir(pool[f].counter), rng[w],
                                    DOMAIN written)
             task == [pool[f] EXCEPT !.extracted = ex.extracted]
         IN  IF ex.raised
             THEN /\ pool' = [pool EXCEPT ![f] = [task EXCEPT !.st = "raised"]]
                  /\ UNCHANGED rng
             ELSE IF ~ex.result
             THEN \* write_result: if result is None: return
                  /\ pool' = [pool EXCEPT ![f] = [task EXCEPT !.st = "done"]]
                  /\ UNCHANGED rng
             ELSE /\ pool' = [pool EXCEPT ![f] = [task EXCEPT !.st = "writing",
                                                              !.path = g.path]]
                  /\ rng' = [rng EXCEPT ![w] = g.rng]
    /\ UNCHANGED <<urlvars, nfiles, walked, filebatch, filecounter, processing_cores,
                   rounds, written>>

\* with open(destination_path, mode='w') as outputfile: outputfile.write(result)
WorkerFinish(f) ==
    /\ f \in DOMAIN pool
    /\ pool[f].st = "writing"
    /\ pool' = [pool EXCEPT ![f].st = "done"]
    /\ written' = Opened(written, pool[f].path)
    /\ UNCHANGED <<urlvars, nfiles, walked, filebatch, filecounter, processing_cores,
                   rounds, rng>>

\* pool.map returns inside the walk: filecounter += len(filebatch); filebatch = [];
\* it raises the exception of a task that raised
FileMapReturn ==
    /\ pc = "f_map"
    /\ PoolBusy(pool) = {}
    /\ IF PoolRaised(pool) # {}
       THEN pc' = "aborted" /\ UNCHANGED <<filecounter, filebatch>>
       ELSE /\ filecounter' = filecounter + Len(filebatch)
            /\ filebatch' = <<>>
            /\ pc' = "f_walk"
    /\ UNCHANGED <<urlvars_but_pc, nfiles, walked, processing_cores, pool, rounds,
                   written, rng>>

\* faulty variant: the rest restarts the count
FinalCounter_Restart(c, batch) == IF c # None THEN Len(batch) ELSE c

\* the counter the rest is dispatched with
FinalCounter(c, batch) == IF c # None THEN c + Len(batch) ELSE c

\* the walk is over: update counter, multiprocessing for the rest
FileWalkEnd ==
    /\ pc = "f_walk"
    /\ walked = nfiles
    /\ filecounter' = FinalCounter(filecounter, filebatch)
    /\ pool' = PoolMap(filebatch, filecounter', Len(rounds) + 1)
    /\ rng' = Fork(processing_cores)
    /\ rounds' = Append(rounds, [size |-> Len(filebatch), counter |-> filecounter'])
    /\ pc' = "f_final"
    /\ UNCHANGED <<urlvars_but_pc, nfiles, walked, filebatch, processing_cores, written>>

\* the last pool.map returns
FileFinalReturn ==
    /\ pc = "f_final"
    /\ PoolBusy(pool) = {}
    /\ pc' = IF PoolRaised(pool) # {} THEN "aborted" ELSE "done"
    /\ UNCHANGED <<urlvars_but_pc, filevars>>

(* ------------------------------ initial states ------------------------- *)
RECURSIVE Sum(_, _)
Sum(f, S) == IF S = {} THEN 0 ELSE LET x == CHOOSE y \in S : TRUE
                                   IN  f[x] + Sum(f, S \ {x})

\* the queues handed to an executor: domains 1..nd, each with its URLs 1..cnt[d]
Queues ==
    {[d \in DOMAIN cnt |-> [k \in 1..cnt[d] |-> Url(d, k)]] :
        cnt \in {c \in UNION {[1..nd -> 1..MaxUrls] : nd \in 0..MaxDomains} :
                    Sum(c, DOMAIN c) <= MaxUrls}}

\* one URL for each of the domains 1..nd
RECURSIVE OnePerDomain(_)
OnePerDomain(nd) == IF nd = 0 THEN <<>> ELSE Append(OnePerDomain(nd - 1), Url(nd, 1))

\* the URL lists handed to the pipeline: up to one domain more than runs
\* single-threaded, or two domains with a second, a repeated and a malformed URL
InputLists ==
    {OnePerDomain(nd) : nd \in 0..(MaxSingleDomains + 1)}
    \cup {<<Url(1, 1), Url(2, 1), Url(1, 1), Url(1, 2), Url(1, 0)>>}

InitUrlIdle ==
    /\ sleeptime = 0 /\ download_threads = 1 /\ archived = FALSE
    /\ input_urls = <<>> /\ domain_dict = EmptyMap /\ counter = None
    /\ args_list = FALSE /\ blacklist = {}

InitUrlLocals ==
    /\ backoff_dict = EmptyMap /\ now = 0 /\ i = 0
    /\ s_errors = <<>> /\ m_errors = <<>> /\ errors = <<>> /\ archived_errors = <<>>
    /\ s_ret = "top" /\ m_ret = "top"
    /\ url = Url(0, 0) /\ bufferlist = <<>> /\ futures = EmptyMap /\ batches = 0
    /\ outcome = EmptyMap /\ fetches = EmptyMap
    /\ prev_draw = EmptyMap /\ last_draw = NoDraw

InitFileIdle ==
    /\ nfiles = 0 /\ processing_cores = 1

InitFileLocals ==
    /\ walked = 0 /\ filebatch = <<>> /\ filecounter = None
    /\ pool = EmptyMap /\ rounds = <<>> /\ written = EmptyMap /\ rng = EmptyMap

\* nothing examined, checked or loaded yet
InitHistory ==
    /\ checked_urls = <<>> /\ last_doc = NoDoc
    /\ lineno = 0 /\ bl_set = {}

\* the lines a blacklist file is made of: URLs of either scheme, one with
\* blanks around it, a host without scheme, an empty line
BlacklistLines ==
    {<<"h", "t", "t", "p", ":", "/", "/", "a", "\n">>,
     <<"h", "t", "t", "p", "s", ":", "/", "/", "a", "\n">>,
     <<" ", "h", "t", "t", "p", "s", ":", "/", "/", "b", " ", "\n">>,
     <<"h", "t", "t", "p", "s", ".", "a", "\n">>,
     <<"\n">>}

\* no timeout, no backup directory, no blacklist file
InitOptionsOff ==
    /\ args_timeout = FALSE /\ args_backup = FALSE /\ htmlstring = "none"
    /\ input0 = <<>> /\ inputfh = <<>>

\* single_threaded_processing(domain_dict, dict(), args, sleeptime, counter)
InitSingle ==
    /\ entry = "single" /\ pc = "s_loop"
    /\ domain_dict \in Queues
    /\ queue0 = QueueUrls(domain_dict)
    /\ sleeptime \in {0, MaxSleep}
    /\ counter \in {None, 0}
    /\ i = 3
    /\ download_threads = 1 /\ archived = FALSE /\ input_urls = <<>>
    /\ args_list = FALSE /\ blacklist = {}
    /\ backoff_dict = EmptyMap /\ now = 0
    /\ s_errors = <<>> /\ m_errors = <<>> /\ errors = <<>> /\ archived_errors = <<>>
    /\ s_ret = "top" /\ m_ret = "top"
    /\ url = Url(0, 0) /\ bufferlist = <<>> /\ futures = EmptyMap /\ batches = 0
    /\ outcome = EmptyMap /\ fetches = EmptyMap
    /\ prev_draw = EmptyMap /\ last_draw = NoDraw
    /\ InitFileIdle /\ InitFileLocals
    /\ InitOptionsOff /\ InitHistory

\* multi_threaded_processing(domain_dict, args, sleeptime, counter)
InitMulti ==
    /\ entry = "multi" /\ pc = "m_loop"
    /\ domain_dict \in Queues
    /\ queue0 = QueueUrls(domain_dict)
    /\ sleeptime \in {0, MaxSleep}
    /\ counter = 0
    /\ download_threads \in 1..MaxThreads
    /\ archived = FALSE /\ input_urls = <<>>
    /\ args_list = FALSE /\ blacklist = {}
    /\ InitUrlLocals
    /\ InitFileIdle /\ InitFileLocals
    /\ InitOptionsOff /\ InitHistory

\* the pipeline's runs: plain, with the deadline, with the backup directory
UrlOptions ==
    {[timeout |-> FALSE, backup |-> FALSE], [timeout |-> TRUE, backup |-> FALSE],
     [timeout |-> FALSE, backup |-> TRUE]}

\* url_processing_pipeline(args, input_urls, sleeptime)
InitUrl ==
    /\ entry = "url" /\ pc = "u_start"
    /\ input_urls \in InputLists
    /\ blacklist \in {{}, {Url(2, 1)}}
    /\ args_list \in BOOLEAN
    /\ archived \in BOOLEAN
    /\ sleeptime = MaxSleep
    /\ download_threads \in {MaxThreads}
    /\ domain_dict = EmptyMap /\ queue0 = {} /\ counter = None
    /\ input0 = input_urls
    /\ \E o \in UrlOptions : args_timeout = o.timeout /\ args_backup = o.backup
    /\ htmlstring = "none" /\ inputfh = <<>>
    /\ InitUrlLocals /\ InitHistory
    /\ InitFileIdle /\ InitFileLocals

\* file_processing_pipeline(args)
InitFile ==
    /\ entry = "file" /\ pc = "f_walk"
    /\ nfiles \in 0..MaxFiles
    /\ processing_cores \in 1..MaxCores
    /\ args_timeout \in BOOLEAN
    /\ args_backup = FALSE /\ htmlstring = "none" /\ input0 = <<>> /\ inputfh = <<>>
    /\ InitFileLocals /\ InitHistory
    /\ InitUrlIdle /\ InitUrlLocals /\ queue0 = {}

\* examine(htmlstring, args)
InitExamine ==
    /\ entry = "examine" /\ pc = "x_call"
    /\ htmlstring \in DocKinds
    /\ args_timeout \in BOOLEAN
    /\ args_backup = FALSE /\ input0 = <<>> /\ inputfh = <<>>
    /\ InitHistory
    /\ InitUrlIdle /\ InitUrlLocals /\ queue0 = {}
    /\ InitFileIdle /\ InitFileLocals

\* load_blacklist(filename)
InitBlacklist ==
    /\ entry = "blacklist" /\ pc = "b_loop"
    /\ inputfh \in UNION {[1..n -> BlacklistLines] : n \in 0..MaxLines}
    /\ args_timeout = FALSE /\ args_backup = FALSE /\ htmlstring = "none" /\ input0 = <<>>
    /\ InitHistory
    /\ InitUrlIdle /\ InitUrlLocals /\ queue0 = {}
    /\ InitFileIdle /\ InitFileLocals

Init == InitSingle \/ InitMulti \/ InitUrl \/ InitFile \/ InitExamine \/ InitBlacklist

\* the steps of the two executors and of the fetch workers
ExecStep ==
    \/ SingleDraw \/ SingleFetch \/ SingleReturn
    \/ MultiReturn \/ MultiDelegate \/ MultiBeginBatch \/ MultiDraw \/ MultiSubmit
    \/ (\E u \in DOMAIN futures : FetchDone(u))
    \/ (\E u \in DOMAIN futures : MultiHandle(u))
    \/ MultiBatchEnd

\* the steps of the program and of its workers
Step ==
    \/ ExecStep
    \/ MultiAbort
    \/ UrlStart \/ UrlRetry
    \/ Examine
    \/ LoadLine \/ LoadReturn
    \/ FileAppend \/ FileMapReturn \/ FileWalkEnd \/ FileFinalReturn
    \/ (\E f \in DOMAIN pool : WorkerStart(f))
    \/ (\E f \in DOMAIN pool : WorkerExamine(f))
    \/ (\E f \in DOMAIN pool : WorkerFinish(f))

Next == Step \/ Tick

Spec == Init /\ [][Next]_vars

\* an executor called on its own
ExecInit == InitSingle \/ InitMulti

ExecNext == ExecStep \/ Tick

\* the orchestrating thread runs on and every fetch returns
FairExec == ExecInit /\ [][ExecNext]_vars /\ WF_vars(ExecStep)

(* ================================ claims ================================ *)

\* C1 as stated: draw_backoff_url never returns a URL of a domain less than
\* sleeptime after it returned the previous URL of that domain, unless the
\* stall valve's pause was executed in between.
C1_NoDrawInsideWindow ==
    (sleeptime > 0 /\ last_draw.gap # None) =>
        (last_draw.gap >= sleeptime \/ last_draw.paused)

\* a draw that returned a URL inside the politeness window of its domain
DrewInsideWindow == last_draw.gap # None /\ last_draw.gap < sleeptime

\* C1, amended: a URL returned inside the politeness window of its domain is
\* returned by a draw that hit the safeguard without pausing and counted the
\* stall (StallCounter incremented by one); a draw that paused returns its URL
\* at least sleeptime after the previous one of that domain.
C1_WindowDrawCountsStall ==
    /\ DrewInsideWindow =>
          /\ last_draw.collided
          /\ ~last_draw.paused
          /\ last_draw.i_after = last_draw.i_before + 1
    /\ (last_draw.paused /\ last_draw.gap # None) => last_draw.gap >= sleeptime

C1_Witness == DrewInsideWindow /\ sleeptime > 0 /\ pc \in {"s_fetch", "m_fill"}

\* C3: every domain of BackoffRegistry has a non-empty sequence in URLQueue; the
\* domain of the last draw is absent from both when its last URL was drawn, and
\* otherwise is registered with the time of that draw.
C3_RegistryFollowsQueue ==
    /\ \A d \in DOMAIN backoff_dict :
          d \in DOMAIN domain_dict /\ domain_dict[d] # <<>>
    /\ last_draw.domain # None =>
          IF last_draw.domain \in DOMAIN domain_dict
          THEN /\ domain_dict[last_draw.domain] # <<>>
               /\ last_draw.domain \in DOMAIN backoff_dict
               /\ backoff_dict[last_draw.domain] = last_draw.time
          ELSE last_draw.domain \notin DOMAIN backoff_dict

\* a registered domain gave its last URL, while another domain is still queued
C3_Witness ==
    /\ last_draw.gap # None
    /\ last_draw.domain \notin DOMAIN domain_dict
    /\ DOMAIN domain_dict # {}
    /\ pc \in {"s_fetch", "m_fill"}

\* C4 as stated: while URLQueue is non-empty the StallCounter is at most
\* 3 x (number of distinct domains currently in URLQueue).
C4_CounterBelowCurrentDomains ==
    DOMAIN domain_dict # {} => i <= 3 * Cardinality(DOMAIN domain_dict)

\* C4, amended: after a draw that hit the safeguard the StallCounter is below
\* 3 x (number of domains in URLQueue when the draw was made); the draw paused
\* exactly when the incremented counter reached or passed that bound, and then
\* left the counter at 0.
C4_CounterBelowDomainsAtDraw ==
    last_draw.collided =>
        /\ last_draw.i_after < 3 * last_draw.ndomains
        /\ last_draw.paused <=> (last_draw.i_before + 1 >= 3 * last_draw.ndomains)
        /\ last_draw.paused => last_draw.i_after = 0

\* the valve fired on a counter that had passed the bound
C4_Witness ==
    /\ last_draw.paused
    /\ last_draw.i_before + 1 > 3 * last_draw.ndomains
    /\ i = 0

\* the URLs the stub fetcher failed
FailedUrls == {u \in DOMAIN outcome : ~outcome[u]}

\* C2 as stated: either executor returns, as a set, exactly the URLs the stub
\* fetcher fails, the failures of earlier concurrent batches included when the
\* remainder is delegated to the sequential executor.
C2_ErrorsAreTheFailures ==
    (entry \in {"single", "multi"} /\ pc = "done") =>
        Range(errors) = {u \in queue0 : u \in FailedUrls}

\* C6 as stated: at the top of the concurrent loop the remainder is delegated
\* exactly when fewer distinct domains than worker threads remain.
C6_DelegatesOnDomains ==
    [][(pc = "m_loop" /\ pc' # "m_loop" /\ DOMAIN domain_dict # {}) =>
          ((pc' = "s_loop") <=> (Cardinality(DOMAIN domain_dict) < download_threads))]_vars

\* C6, amended: the remainder is delegated exactly when fewer URLs than worker
\* threads remain in URLQueue, whatever the number of domains; otherwise a batch
\* of exactly download_threads distinct URLs is drawn and submitted.
C6_DelegatesOnUrls ==
    /\ [][(pc = "m_loop" /\ pc' # "m_loop" /\ DOMAIN domain_dict # {}) =>
            /\ (pc' = "s_loop") <=> (Cardinality(QueueUrls(domain_dict)) < download_threads)
            /\ (pc' = "m_fill") <=> (Cardinality(QueueUrls(domain_dict)) >= download_threads)]_vars
    /\ [](pc = "m_wait" =>
            /\ Len(bufferlist) = download_threads
            /\ Cardinality(Range(bufferlist)) = download_threads
            /\ DOMAIN futures = Range(bufferlist))

\* a batch was begun with fewer domains than worker threads in the queue
C6_Witness ==
    /\ pc = "m_fill"
    /\ bufferlist = <<>>
    /\ Cardinality(DOMAIN domain_dict) < download_threads

\* an executor called on a queue has returned with the queue fetched
ExecutorFinished ==
    /\ pc = "done"
    /\ DOMAIN domain_dict = {}
    /\ DOMAIN fetches = queue0
    /\ \A u \in queue0 : fetches[u] = 1
    /\ (FailedUrls = {}) => errors = <<>>

\* C5: the sequential and the concurrent executor terminate with URLQueue empty
\* and every URL of the initial queue fetched exactly once, none twice on the
\* way; when no fetch fails the returned ErrorSet is empty.
C5_ExecutorsFetchAllOnce ==
    (entry \in {"single", "multi"}) =>
        /\ <>ExecutorFinished
        /\ [](\A u \in DOMAIN fetches : u \in queue0 /\ fetches[u] = 1)
        /\ [](pc # "fault")

\* the concurrent executor returned from a queue of several URLs, none failed
C5_Witness ==
    /\ entry = "multi"
    /\ ExecutorFinished
    /\ batches >= 1
    /\ Cardinality(queue0) >= 3
    /\ FailedUrls = {}

\* fetches submitted and not yet returned
InFlight == {u \in DOMAIN futures : futures[u] = "running"}

\* tasks of the file pool not yet finished
PoolPending == PoolBusy(pool)

\* C7: both pools are batch-barriered. The orchestrating thread draws, submits
\* or walks on only when no task of the previous batch is left; at most
\* download_threads fetches (processing_cores file workers) are in flight, all of
\* the batch submitted last.
C7_BatchBarrier ==
    /\ pc # "m_wait" => InFlight = {}
    /\ Cardinality(InFlight) <= download_threads
    /\ InFlight \subseteq Range(bufferlist)
    /\ pc \notin {"f_map", "f_final"} => PoolPending = {}
    /\ Cardinality(PoolRunning(pool)) <= processing_cores
    /\ \A f \in PoolPending : pool[f].round = Len(rounds)

\* the second batch of fetches is in flight, on every thread
C7_Witness ==
    /\ pc = "m_wait"
    /\ batches >= 2
    /\ download_threads >= 2
    /\ Cardinality(InFlight) = download_threads

\* C8 as stated: every batch handed to the worker pool holds at most
\* MAX_FILES_PER_DIRECTORY files.
C8_BatchWithinShardSize ==
    \A k \in DOMAIN rounds : rounds[k].size <= MAX_FILES_PER_DIRECTORY

\* the non-empty dispatch rounds, in order
NonEmptyRounds == SelectSeq(rounds, LAMBDA r : r.size > 0)

\* C9 as stated: in a run with an overflow dispatch the non-empty rounds go to
\* consecutive shards: the first to shard 1, each later one to the shard after
\* that of the round before it.
C9_ConsecutiveShards ==
    (rounds # <<>> /\ rounds[1].counter # None) =>
        /\ determine_counter_dir(NonEmptyRounds[1].counter) = 1
        /\ \A k \in 2..Len(NonEmptyRounds) :
              determine_counter_dir(NonEmptyRounds[k].counter)
                  = determine_counter_dir(NonEmptyRounds[k - 1].counter) + 1

\* C10: within one invocation a non-null Counter never decreases and never
\* becomes null; the URL executors leave a null Counter null and advance a
\* non-null one by at most one per step, the retry pass going on from the
\* primary pass's value.
C10_CounterMonotone ==
    [][/\ counter # None => (counter' # None /\ counter' >= counter /\ counter' <= counter + 1)
       /\ counter = None => counter' = None
       /\ filecounter # None => (filecounter' # None /\ filecounter' >= filecounter)]_vars

\* the file counter advanced over two overflow rounds and the rest
C10_Witness ==
    /\ pc = "done"
    /\ Len(rounds) = 3
    /\ rounds[3].size > 0
    /\ filecounter = nfiles

\* C11: a document that is None, above the maximum or below the minimum size
\* comes out of examine with no result and without extract having been called,
\* no output file is written for it, and the rejection raises nothing: the
\* executor's loop and the worker batch go on with the documents that remain.
C11_RejectedWithoutExtraction ==
    /\ last_doc.kind \in {"null", "large", "small"} =>
          /\ ~last_doc.extracted /\ ~last_doc.result /\ ~last_doc.raised
          /\ last_doc.out_dir = None
          /\ pc # "aborted"
    /\ \A f \in DOMAIN pool :
          (FileDocument(f) \in {"large", "small"} /\ pool[f].st \notin {"queued", "running"}) =>
              /\ pool[f].st = "done"
              /\ ~pool[f].extracted
              /\ pool[f].path = NoPath

\* the sequential loop goes on after a too small document
C11_Witness ==
    /\ last_doc.kind = "small"
    /\ pc = "s_fetch"
    /\ fetches # EmptyMap

\* C12 as stated: no exception raised for a document, the deadline's included,
\* leaves examine: it returns no result and neither the executor's loop nor the
\* worker batch is aborted.
C12_FaultsCaughtInExamine ==
    /\ ~last_doc.raised
    /\ pc # "aborted"
    /\ PoolRaised(pool) = {}

\* the archive endpoint URLs fetched so far
ArchiveFetched == {u \in DOMAIN fetches : u.arch}

\* C13: in the URL pipeline no URL is requested twice; archive endpoint URLs
\* are fetched only with the retry enabled, in the one sequential pass after
\* the primary pass, from a queue whose only domain is the synthetic one, and
\* each is the rewriting of a URL of the returned ErrorSet; when the pipeline
\* returns, every URL of that ErrorSet has been fetched once more through its
\* rewriting, the ones that failed again included, and never a third time.
C13_ArchiveRetryOnce ==
    entry = "url" =>
        /\ \A u \in DOMAIN fetches : fetches[u] = 1
        /\ ~archived => ArchiveFetched = {}
        /\ ArchiveFetched # {} => s_ret = "archive"
        /\ (s_ret = "archive" /\ pc \in {"s_loop", "s_fetch"}) =>
              DOMAIN domain_dict \subseteq {ArchiveDomain}
        /\ \A u \in ArchiveFetched :
              \E e \in Range(errors) : u = ArchiveUrl(e) /\ e \in DOMAIN fetches
        /\ (pc = "done" /\ archived /\ ~args_list) =>
              /\ ArchiveFetched = {ArchiveUrl(e) : e \in Range(errors)}
              /\ Range(archived_errors) \subseteq ArchiveFetched

\* the retry pass is over: two URLs were fetched again, one of them failed again
C13_Witness ==
    /\ entry = "url" /\ pc = "done" /\ archived
    /\ Len(errors) >= 2
    /\ Len(archived_errors) = 1

\* 'http://' + rest and 'https://' + rest
HttpForm(rest) == <<"h", "t", "t", "p", ":", "/", "/">> \o rest

HttpsForm(rest) == <<"h", "t", "t", "p", "s", ":", "/", "/">> \o rest

\* what follows the scheme in the URLs of the blacklist lines
Rests == {<<"a">>, <<"b">>}

\* C14: for every line read so far that is, blanks apart, an http:// or an
\* https:// URL, the set load_blacklist builds holds both the http:// and the
\* https:// form of that URL.
C14_BothSchemesListed ==
    entry = "blacklist" =>
        \A k \in 1..lineno : \A rest \in Rests :
            strip(inputfh[k]) \in {HttpForm(rest), HttpsForm(rest)} =>
                {HttpForm(rest), HttpsForm(rest)} \subseteq bl_set

\* a file with an http line and an https line of another URL was loaded
C14_Witness ==
    /\ entry = "blacklist" /\ pc = "done"
    /\ Len(inputfh) = 2
    /\ strip(inputfh[1]) = HttpForm(<<"a">>)
    /\ strip(inputfh[2]) = HttpsForm(<<"b">>)
    /\ Cardinality(bl_set) = 4

\* where a URL occurs first in a list
FirstAt(u, urls) == CHOOSE k \in 1..Len(urls) : urls[k] = u /\ \A j \in 1..(k - 1) : urls[j] # u

\* C15: what url_processing_checks returns holds exactly the URLs of the input
\* that are not blacklisted and are valid, each once, in the order in which they
\* first occur in the input; with no such URL it is the empty list, and the
\* call raises nothing.
C15_ChecksFilterDedupInOrder ==
    (entry = "url" /\ pc # "u_start") =>
        /\ Range(checked_urls) = {u \in Range(input0) : u \notin blacklist /\ u.n # 0}
        /\ \A a, b \in 1..Len(checked_urls) :
              a < b => /\ checked_urls[a] # checked_urls[b]
                       /\ FirstAt(checked_urls[a], input0) < FirstAt(checked_urls[b], input0)
        /\ args_list => (pc = "done" /\ input_urls = checked_urls)

\* [a, b, a, c, malformed] was checked against an empty blacklist: [a, b, c]
C15_Witness ==
    /\ entry = "url" /\ pc # "u_start"
    /\ blacklist = {}
    /\ input0 = <<Url(1, 1), Url(2, 1), Url(1, 1), Url(1, 2), Url(1, 0)>>
    /\ checked_urls = <<Url(1, 1), Url(2, 1), Url(1, 2)>>

\* C16: a step in which a fetch worker of the concurrent executor returns
\* changes neither URLQueue, BackoffRegistry, StallCounter, ErrorSet nor Counter;
\* URLQueue, BackoffRegistry and StallCounter change only in steps of the
\* orchestrating thread taken while no fetch is in flight.
C16_WorkersLeaveSchedulerAlone ==
    [][/\ (InFlight' # InFlight /\ InFlight' \subseteq InFlight) =>
             UNCHANGED <<domain_dict, backoff_dict, i, s_errors, m_errors, errors, counter, pc>>
       /\ (<<domain_dict, backoff_dict, i>>' # <<domain_dict, backoff_dict, i>>) =>
             (InFlight = {} /\ pc \notin {"m_wait"} /\ futures' = futures)]_vars

\* a worker is in flight while the orchestrating thread has handled a failure
\* of the same batch
C16_Witness ==
    /\ pc = "m_wait"
    /\ InFlight # {}
    /\ \E u \in DOMAIN futures : futures[u] = "handled" /\ u \in Range(m_errors)
    /\ DOMAIN domain_dict # {}

\* the URLs a step takes out of the queue
Drawn == QueueUrls(domain_dict) \ QueueUrls(domain_dict')

\* C20: in the primary pass of the URL pipeline a URL is drawn before every URL
\* of its domain that follows it in the checked (deduplicated) input list,
\* whichever domain the scheduler picks.
C20_DomainOrderKept ==
    [][(entry = "url" /\ s_ret' # "archive") =>
          \A u \in Drawn : \A v \in QueueUrls(domain_dict') :
              extract_domain(v) = extract_domain(u) =>
                  FirstAt(u, checked_urls) < FirstAt(v, checked_urls)]_vars

\* the second URL of a domain was drawn after the first had been fetched
C20_Witness ==
    /\ entry = "url" /\ pc = "s_fetch" /\ s_ret = "primary"
    /\ url = Url(1, 2)
    /\ Url(1, 1) \in DOMAIN fetches
    /\ FirstAt(Url(1, 1), checked_urls) < FirstAt(Url(1, 2), checked_urls)

\* C17 as stated: no output path is opened for writing twice, and the path a
\* worker is about to open is still unused.
C17_NoOutputOverwritten ==
    /\ \A output_path \in DOMAIN written : written[output_path] = 1
    /\ \A f \in DOMAIN pool :
          pool[f].st = "writing" => pool[f].path \notin DOMAIN written

\* C18 as stated: with more URLs to process than MAX_FILES_PER_DIRECTORY the
\* pipeline hands its executors a Counter that is not null (null otherwise), and
\* a document's output goes to the shard directory of the Counter it was
\* processed at, which is the directory of its backup copy.
C18_UrlOutputFollowsCounter ==
    (entry = "url" /\ pc # "u_start" /\ ~args_list) =>
        /\ (Len(checked_urls) > MAX_FILES_PER_DIRECTORY) <=> (counter # None)
        /\ last_doc.out_dir # None =>
              last_doc.out_dir = determine_counter_dir(last_doc.counter)
        /\ (last_doc.out_dir # None /\ last_doc.backup_dir # None) =>
              last_doc.out_dir = last_doc.backup_dir

\* C19 as stated: no draw faults, and every domain of URLQueue maps to a
\* non-empty sequence whenever a loop is about to draw.
C19_DrawsNeverFault ==
    /\ pc # "fault"
    /\ pc \in {"s_loop", "m_loop", "m_fill"} =>
          \A d \in DOMAIN domain_dict : domain_dict[d] # <<>>

====
